---------------------------- MODULE Spec2Model ----------------------------
(***************************************************************************)
(* Model of backend/core/api.py of open-hypertrophy: the request handlers  *)
(* of the workout-tracking API over the entity store and the session       *)
(* cookie.  Every handler is one atomic action, except create_user, whose  *)
(* existence check, INSERT, six permission grants and commit are separate  *)
(* steps of a registration request so that concurrent requests interleave. *)
(***************************************************************************)
EXTENDS Integers, Sequences, FiniteSets, TLC

\* ------------------------------------------------------------------ bounds
MaxExercises == 1
MaxLifts == 2

\* ------------------------------------------------------------ input domains
Usernames == {"alice", "bob"}
\* "12345" stands for a password the configured validators reject
Passwords == {"Tr0ub4dor&3", "c0rrectHorse", "12345"}
ExerciseNames == {"squat"}
Sessions == {"s1", "s2"}
Requests == {"r1", "r2"}
Dates == {1, 2}
ExerciseIds == 1..(MaxExercises + 1)
Repetitions == {5}
Weights == {100}

NoUser == [id |-> 0]
NoRow == [id |-> 0]
NoSession == [uid |-> 0]
IdleRequest == [pc |-> "idle", username |-> "", password |-> "", row |-> NoRow, k |-> 0]

\* the six permissions of create_user, in the order the handler grants them
PermOrder ==
    << "add_category", "view_category", "add_exercise",
       "view_exercise", "add_lift", "view_lift" >>
SixPermissions == {PermOrder[i] : i \in DOMAIN PermOrder}

VARIABLES
    users,        \* committed User rows
    permissions,  \* codenames of the Permission rows in the store
    categories,   \* Category rows
    exercises,    \* Exercise rows
    lifts,        \* Lift rows
    sess,         \* per session cookie: the session data (user id, auth hash)
    req,          \* per registration request: position and open transaction
    resp          \* the last response sent, with the request it answers

store == << users, permissions, categories, exercises, lifts >>
vars == << users, permissions, categories, exercises, lifts, sess, req, resp >>

\* ------------------------------------------------------------------ helpers
Min(S) == CHOOSE n \in S : \A m \in S : n <= m

\* rows written inside a transaction.atomic() block that has not committed
Uncommitted == {req[r].row : r \in {q \in Requests : req[q].row # NoRow}}

\* faulty variant: without transaction.atomic() every write is visible at once
VisibleUsers_dirty == users \cup Uncommitted
\* what a query of another request sees: committed rows only
VisibleUsers == users

\* what is left of a transaction.atomic() block that raised: nothing
rollback(committed, row) == committed

\* primary key of a new user row
NextUserId ==
    Min((1..(Cardinality(users) + Cardinality(Uncommitted) + 1))
            \ {u.id : u \in users \cup Uncommitted})

\* a salt no stored hash and no session uses (set_password draws a random one)
SaltsInUse ==
    {u.password.salt : u \in users \cup Uncommitted}
        \cup {sess[s].hash[2].salt : s \in {t \in Sessions : sess[t] # NoSession}}
FreshSalt == Min((1..(Cardinality(SaltsInUse) + 1)) \ SaltsInUse)

\* the password hasher: salted digest
make_password(raw, salt) == [salt |-> salt, digest |-> << "pbkdf2", salt, raw >>]

\* faulty variant: a check that accepts every password
check_password_any(raw, encoded) == TRUE
\* check_password: hash raw with the stored salt and compare
check_password(raw, encoded) == make_password(raw, encoded.salt) = encoded

\* AbstractBaseUser.get_session_auth_hash: keyed hash of the stored password
get_session_auth_hash(u) == << "hmac", u.password >>

\* validate_password: the messages of the validators that reject the password
validate_password(raw) ==
    IF raw = "12345"
        THEN << "This password is too short.", "This password is entirely numeric." >>
        ELSE << >>

RECURSIVE Join(_)
Join(msgs) ==
    IF msgs = << >> THEN ""
    ELSE IF Len(msgs) = 1 THEN msgs[1]
    ELSE msgs[1] \o " " \o Join(Tail(msgs))

\* authenticate(): the user row whose username and password match, or None
authenticate(username, password) ==
    LET hit == {u \in VisibleUsers :
                    u.username = username /\ check_password(password, u.password)}
    IN  IF hit = {} THEN NoUser ELSE CHOOSE u \in hit : TRUE

\* request.user behind SessionAuth: the user of the session data when the
\* stored auth hash still matches the user's password, else anonymous
session_auth(s) ==
    LET hit == {u \in VisibleUsers :
                    /\ sess[s] # NoSession
                    /\ u.id = sess[s].uid
                    /\ sess[s].hash = get_session_auth_hash(u)}
    IN  IF hit = {} THEN NoUser ELSE CHOOSE u \in hit : TRUE

SessionState(s) == IF session_auth(s) = NoUser THEN "Anonymous" ELSE "Authenticated"

\* django_login: the session data of a session logged in as u
django_login(s, u) == [uid |-> u.id, hash |-> get_session_auth_hash(u)]

\* faulty variant: a logout that keeps the session data
django_logout_keep(s) == sess[s]
\* django_logout: flush the session
django_logout(s) == NoSession

\* faulty variant: the session keeps the hash of the old password
update_session_auth_hash_skip(s, u) == sess[s]
\* update_session_auth_hash: store the hash of the new password in the session
update_session_auth_hash(s, u) == [uid |-> sess[s].uid, hash |-> get_session_auth_hash(u)]

\* all orderings of a set of rows as sequences
Orderings(S) ==
    {f \in [1..Cardinality(S) -> S] : \A i, j \in 1..Cardinality(S) : i # j => f[i] # f[j]}

\* order_by("date"): ascending; rows of equal date come in any order
order_by_date(S) ==
    {f \in Orderings(S) : \A i \in 1..(Cardinality(S) - 1) : f[i].date <= f[i + 1].date}

\* order_by("-date_created"): descending
order_by_date_created_desc(S) ==
    {f \in Orderings(S) :
        \A i \in 1..(Cardinality(S) - 1) : f[i].date_created >= f[i + 1].date_created}

\* faulty variant: no filter on the owner
filter_user_all(rows, u) == rows
\* Lift.objects.filter(user=request.user)
filter_user(rows, u) == {l \in rows : l.user = u.id}

Response(op, who, status, detail, body, arg) ==
    [op |-> op, who |-> who, status |-> status, detail |-> detail, body |-> body, arg |-> arg]

NoArg == [none |-> TRUE]

\* the 401 of the auth gate; reading request.user drops stale session data
Unauthorized(s, op) ==
    /\ resp' = Response(op, s, 401, "Unauthorized", << >>, NoArg)
    /\ sess' = [sess EXCEPT ![s] = NoSession]
    /\ UNCHANGED << store, req >>

\* --------------------------------------------------------------------- Init
SeedCategories ==
    { [id |-> 1, name |-> "legs", date_created |-> 1],
      [id |-> 2, name |-> "push", date_created |-> 2] }

Init ==
    /\ users = {}
    /\ permissions \in {SixPermissions, SixPermissions \ {"add_exercise"}}
    /\ categories = SeedCategories
    /\ exercises = {}
    /\ lifts = {}
    /\ sess = [s \in Sessions |-> NoSession]
    /\ req = [r \in Requests |-> IdleRequest]
    /\ resp = Response("none", "", 0, "", << >>, NoArg)

\* ----------------------------------------------------------------- handlers
list_categories(s) ==
    IF session_auth(s) = NoUser THEN Unauthorized(s, "list_categories")
    ELSE /\ \E body \in order_by_date_created_desc(categories) :
                resp' = Response("list_categories", s, 200, "", body, NoArg)
         /\ UNCHANGED << store, sess, req >>

list_exercises(s) ==
    IF session_auth(s) = NoUser THEN Unauthorized(s, "list_exercises")
    ELSE /\ \E body \in order_by_date_created_desc(exercises) :
                resp' = Response("list_exercises", s, 200, "", body, NoArg)
         /\ UNCHANGED << store, sess, req >>

\* faulty variant: create_exercise without auth=session_auth
create_exercise_ungated(s, name) ==
    /\ Cardinality(exercises) < MaxExercises
    /\ exercises' = exercises \cup
            {[id |-> Cardinality(exercises) + 1, name |-> name,
              created_by |-> session_auth(s).id,
              date_created |-> Cardinality(exercises) + 1]}
    /\ resp' = Response("create_exercise", s, 201, "Exercise created successfully.",
                        << >>, [name |-> name])
    /\ UNCHANGED << users, permissions, categories, lifts, sess, req >>

create_exercise(s, name) ==
    IF session_auth(s) = NoUser THEN Unauthorized(s, "create_exercise")
    ELSE /\ Cardinality(exercises) < MaxExercises
         /\ exercises' = exercises \cup
                {[id |-> Cardinality(exercises) + 1, name |-> name,
                  created_by |-> session_auth(s).id,
                  date_created |-> Cardinality(exercises) + 1]}
         /\ resp' = Response("create_exercise", s, 201, "Exercise created successfully.",
                             << >>, [name |-> name])
         /\ UNCHANGED << users, permissions, categories, lifts, sess, req >>

list_lifts(s) ==
    IF session_auth(s) = NoUser THEN Unauthorized(s, "list_lifts")
    ELSE /\ \E body \in order_by_date(filter_user(lifts, session_auth(s))) :
                resp' = Response("list_lifts", s, 200, "", body,
                                 [user |-> session_auth(s).id])
         /\ UNCHANGED << store, sess, req >>

\* Exercise.objects.get(id=...): the matching rows; none raises DoesNotExist
\* faulty variant: the id is used without looking the row up
get_exercise_unchecked(id) == {[id |-> id]}
get_exercise(id) == {e \in exercises : e.id = id}

create_lift(s, exercise_id, date, repetitions, weight) ==
    IF session_auth(s) = NoUser THEN Unauthorized(s, "create_lift")
    ELSE LET arg == [user |-> session_auth(s).id, exercise_id |-> exercise_id,
                     id |-> Cardinality(lifts) + 1]
         IN  IF get_exercise(exercise_id) = {}
                THEN /\ resp' = Response("create_lift", s, 404, "Exercise not found.",
                                         << >>, arg)
                     /\ UNCHANGED << store, sess, req >>
                ELSE /\ Cardinality(lifts) < MaxLifts
                     /\ \E exercise \in get_exercise(exercise_id) :
                            lifts' = lifts \cup
                                {[id |-> Cardinality(lifts) + 1,
                                  user |-> session_auth(s).id,
                                  date |-> date,
                                  exercise |-> exercise.id,
                                  repetitions |-> repetitions,
                                  weight |-> weight]}
                     /\ resp' = Response("create_lift", s, 201,
                                         "Lift created successfully.", << >>, arg)
                     /\ UNCHANGED << users, permissions, categories, exercises, sess, req >>

retrieve_current_user(s) ==
    IF session_auth(s) = NoUser THEN Unauthorized(s, "retrieve_current_user")
    ELSE /\ resp' = Response("retrieve_current_user", s, 200, "",
                             << session_auth(s).username >>,
                             [user |-> session_auth(s).id])
         /\ UNCHANGED << store, sess, req >>

login(s, username, password) ==
    LET user == authenticate(username, password)
        arg == [username |-> username, password |-> password]
    IN  IF user # NoUser
            THEN /\ sess' = [sess EXCEPT ![s] = django_login(s, user)]
                 /\ resp' = Response("login", s, 200, "Success.", << >>, arg)
                 /\ UNCHANGED << store, req >>
            ELSE /\ resp' = Response("login", s, 400, "Invalid credentials.", << >>, arg)
                 /\ UNCHANGED << store, sess, req >>

logout(s) ==
    /\ sess' = [sess EXCEPT ![s] = django_logout(s)]
    /\ resp' = Response("logout", s, 200, "Success.", << >>, NoArg)
    /\ UNCHANGED << store, req >>

\* faulty variant: change_password without the check of current_password
change_password_unverified(s, current_password, new_password) ==
    IF session_auth(s) = NoUser THEN Unauthorized(s, "change_password")
    ELSE LET user == session_auth(s)
             arg == [user |-> user.id, username |-> user.username,
                     current_password |-> current_password,
                     new_password |-> new_password]
             saved == [user EXCEPT !.password = make_password(new_password, FreshSalt)]
         IN  IF validate_password(new_password) # << >>
                THEN /\ resp' = Response("change_password", s, 400,
                                         Join(validate_password(new_password)), << >>, arg)
                     /\ UNCHANGED << store, sess, req >>
                ELSE /\ users' = (users \ {user}) \cup {saved}
                     /\ sess' = [sess EXCEPT ![s] = update_session_auth_hash(s, saved)]
                     /\ resp' = Response("change_password", s, 200,
                                         "Password changed successfully.", << >>, arg)
                     /\ UNCHANGED << permissions, categories, exercises, lifts, req >>

change_password(s, current_password, new_password) ==
    IF session_auth(s) = NoUser THEN Unauthorized(s, "change_password")
    ELSE LET user == session_auth(s)
             arg == [user |-> user.id, username |-> user.username,
                     current_password |-> current_password,
                     new_password |-> new_password]
         IN  IF ~check_password(current_password, user.password)
                THEN /\ resp' = Response("change_password", s, 400,
                                         "Current password is incorrect.", << >>, arg)
                     /\ UNCHANGED << store, sess, req >>
             ELSE IF validate_password(new_password) # << >>
                THEN /\ resp' = Response("change_password", s, 400,
                                         Join(validate_password(new_password)), << >>, arg)
                     /\ UNCHANGED << store, sess, req >>
             ELSE LET saved == [user EXCEPT
                                    !.password = make_password(new_password, FreshSalt)]
                  IN  /\ users' = (users \ {user}) \cup {saved}
                      /\ sess' = [sess EXCEPT ![s] = update_session_auth_hash(s, saved)]
                      /\ resp' = Response("change_password", s, 200,
                                          "Password changed successfully.", << >>, arg)
                      /\ UNCHANGED << permissions, categories, exercises, lifts, req >>


\* faulty variant: no uniqueness constraint on the username column
unique_violation_off(username) == FALSE
\* the UNIQUE constraint on the username column, checked by the INSERT
unique_violation(username) == \E u \in users : u.username = username

IntegrityErrorText == "UNIQUE constraint failed: auth_user.username"

\* create_user up to the existence check
create_user(r, username, password) ==
    /\ req[r].pc = "idle"
    /\ IF \E u \in VisibleUsers : u.username = username
          THEN /\ resp' = Response("create_user", r, 400, "Username is already used.",
                                   << >>, [username |-> username, password |-> password])
               /\ UNCHANGED << store, sess, req >>
          ELSE /\ req' = [req EXCEPT ![r] = [pc |-> "insert", username |-> username,
                                             password |-> password, row |-> NoRow, k |-> 0]]
               /\ UNCHANGED << store, sess, resp >>

\* transaction.atomic() entered; objects.create_user hashes the password and
\* INSERTs the row.  The INSERT waits for an open transaction holding the same
\* username and fails on a committed one (IntegrityError -> 400 handler).
create_user_insert(r) ==
    /\ req[r].pc = "insert"
    /\ \A row \in Uncommitted : row.username # req[r].username
    /\ IF unique_violation(req[r].username)
          THEN /\ resp' = Response("create_user", r, 400, IntegrityErrorText, << >>,
                                   [username |-> req[r].username,
                                    password |-> req[r].password])
               /\ req' = [req EXCEPT ![r] = IdleRequest]
               /\ UNCHANGED << store, sess >>
          ELSE /\ req' = [req EXCEPT
                            ![r].pc = "grant",
                            ![r].k = 1,
                            ![r].row = [id |-> NextUserId,
                                        username |-> req[r].username,
                                        password |-> make_password(req[r].password, FreshSalt),
                                        is_staff |-> TRUE,
                                        perms |-> {}]]
               /\ UNCHANGED << store, sess, resp >>

\* one u.user_permissions.add(Permission.objects.get(codename=...)); a missing
\* Permission row raises DoesNotExist, which leaves the atomic block and is
\* answered by the framework's 500
create_user_grant(r) ==
    /\ req[r].pc = "grant"
    /\ LET codename == PermOrder[req[r].k]
       IN  IF codename \notin permissions
              THEN /\ users' = rollback(users, req[r].row)
                   /\ req' = [req EXCEPT ![r] = IdleRequest]
                   /\ resp' = Response("create_user", r, 500, "Server Error", << >>,
                                       [username |-> req[r].username,
                                        password |-> req[r].password])
                   /\ UNCHANGED << permissions, categories, exercises, lifts, sess >>
              ELSE /\ req' = [req EXCEPT
                                ![r].row.perms = @ \cup {codename},
                                ![r].k = @ + 1,
                                ![r].pc = IF req[r].k = Len(PermOrder) THEN "save" ELSE "grant"]
                   /\ UNCHANGED << store, sess, resp >>

\* u.save() and the commit at the end of the atomic block
create_user_commit(r) ==
    /\ req[r].pc = "save"
    /\ users' = users \cup {req[r].row}
    /\ req' = [req EXCEPT ![r] = IdleRequest]
    /\ resp' = Response("create_user", r, 201, "Success.", << >>,
                        [username |-> req[r].username, password |-> req[r].password])
    /\ UNCHANGED << permissions, categories, exercises, lifts, sess >>

\* --------------------------------------------------------------------- Next
Next ==
    \/ \E s \in Sessions : list_categories(s)
    \/ \E s \in Sessions : list_exercises(s)
    \/ \E s \in Sessions, name \in ExerciseNames : create_exercise(s, name)
    \/ \E s \in Sessions : list_lifts(s)
    \/ \E s \in Sessions, e \in ExerciseIds, d \in Dates, n \in Repetitions, w \in Weights :
            create_lift(s, e, d, n, w)
    \/ \E r \in Requests, u \in Usernames, p \in Passwords : create_user(r, u, p)
    \/ \E r \in Requests : create_user_insert(r)
    \/ \E r \in Requests : create_user_grant(r)
    \/ \E r \in Requests : create_user_commit(r)
    \/ \E s \in Sessions : retrieve_current_user(s)
    \/ \E s \in Sessions, u \in Usernames, p \in Passwords : login(s, u, p)
    \/ \E s \in Sessions : logout(s)
    \/ \E s \in Sessions, c \in Passwords, n \in Passwords : change_password(s, c, n)

\* the whole API: every handler, every session, every input
Spec == Init /\ [][Next]_vars


\* ------------------------------------------------------- sub-specifications
\* Each restricts Next to some handlers and inputs; every behaviour of one is
\* a behaviour of Spec, from a state Spec reaches.

\* concurrent registrations, observed through login and the current user
NextRegister ==
    \/ \E r \in Requests, u \in Usernames, p \in Passwords : create_user(r, u, p)
    \/ \E r \in Requests : create_user_insert(r)
    \/ \E r \in Requests : create_user_grant(r)
    \/ \E r \in Requests : create_user_commit(r)
    \/ \E s \in {"s1"}, u \in Usernames, p \in Passwords : login(s, u, p)
    \/ \E s \in {"s1"} : retrieve_current_user(s)
    \/ \E s \in {"s1"} : logout(s)

SpecRegister == Init /\ [][NextRegister]_vars

\* one registered user, two session cookies, every session-gated handler
NextSession ==
    \/ \E p \in Passwords : create_user("r1", "alice", p)
    \/ create_user_insert("r1")
    \/ create_user_grant("r1")
    \/ create_user_commit("r1")
    \/ \E s \in Sessions, u \in Usernames, p \in Passwords : login(s, u, p)
    \/ \E s \in Sessions : logout(s)
    \/ \E s \in Sessions, c \in Passwords, n \in Passwords : change_password(s, c, n)
    \/ \E s \in Sessions : retrieve_current_user(s)
    \/ \E s \in Sessions : list_categories(s)
    \/ \E s \in Sessions : list_exercises(s)
    \/ \E s \in Sessions, name \in ExerciseNames : create_exercise(s, name)
    \/ \E s \in Sessions : list_lifts(s)
    \/ \E s \in Sessions, e \in ExerciseIds, n \in Repetitions, w \in Weights :
            create_lift(s, e, 1, n, w)

SpecSession == Init /\ [][NextSession]_vars

\* two registered users logging lifts
RegisteredUser(id, username, password) ==
    [id |-> id, username |-> username, password |-> make_password(password, id),
     is_staff |-> TRUE, perms |-> SixPermissions]

InitLifts ==
    /\ users = { RegisteredUser(1, "alice", "Tr0ub4dor&3"),
                 RegisteredUser(2, "bob", "c0rrectHorse") }
    /\ permissions = SixPermissions
    /\ categories = SeedCategories
    /\ exercises = {}
    /\ lifts = {}
    /\ sess = [s \in Sessions |-> NoSession]
    /\ req = [r \in Requests |-> IdleRequest]
    /\ resp = Response("none", "", 0, "", << >>, NoArg)

NextLifts ==
    \/ \E s \in Sessions : login(s, "alice", "Tr0ub4dor&3")
    \/ \E s \in Sessions : login(s, "bob", "c0rrectHorse")
    \/ \E s \in Sessions : logout(s)
    \/ \E s \in Sessions, name \in ExerciseNames : create_exercise(s, name)
    \/ \E s \in Sessions : list_lifts(s)
    \/ \E s \in Sessions, e \in ExerciseIds, d \in Dates, n \in Repetitions, w \in Weights :
            create_lift(s, e, d, n, w)

SpecLifts == InitLifts /\ [][NextLifts]_vars


\* =================================================================== claims
Rows(body) == {body[i] : i \in DOMAIN body}

\* the stored hash of row u is the hash of raw, stated on the digest itself
StoredPasswordIs(u, raw) == u.password.digest = << "pbkdf2", u.password.salt, raw >>
CredentialsMatch(username, raw) ==
    \E u \in users : u.username = username /\ StoredPasswordIs(u, raw)

GatedOps ==
    { "list_categories", "list_exercises", "create_exercise", "list_lifts",
      "create_lift", "retrieve_current_user", "change_password" }

\* a step of the handler op on a session cookie: the handler writes its
\* response, and, unlike the steps inside create_user, leaves req alone
SessionStep(op) == resp'.op = op /\ req' = req
GatedStep == resp'.op \in GatedOps /\ req' = req

\* C1: every lift list_lifts returns to a session authenticated as user A is
\* owned by A, no lift of another user is in it and every lift A created is;
\* a lift created from A's session is owned by A.
C1_ListsOwnLiftsOnly ==
    /\ (resp.op = "list_lifts" /\ resp.status = 200) =>
            /\ session_auth(resp.who).id = resp.arg.user
            /\ Rows(resp.body) = {l \in lifts : l.user = resp.arg.user}
    /\ (resp.op = "create_lift" /\ resp.status = 201) =>
            /\ session_auth(resp.who).id = resp.arg.user
            /\ \E l \in lifts : l.id = resp.arg.id /\ l.user = resp.arg.user

C1_Witness ==
    /\ resp.op = "list_lifts" /\ resp.status = 200
    /\ resp.body # << >>
    /\ \E l \in lifts : l.user # resp.arg.user

\* C2: every user row a request can observe is marked staff and holds exactly
\* the six permissions, also while registrations are in progress and after a
\* registration failed inside its transaction, which leaves no row at all.
C2_RegistrationAtomic ==
    /\ \A u \in VisibleUsers : u.is_staff /\ u.perms = SixPermissions
    /\ (resp.op = "create_user" /\ resp.status = 500) =>
            \A u \in VisibleUsers : u.username # resp.arg.username

C2_Witness ==
    /\ users # {}
    /\ \E r \in Requests :
            /\ req[r].pc = "grant"
            /\ req[r].row.perms # {}
            /\ req[r].row.perms # SixPermissions

\* C3 as stated: whenever a create_user call is refused for a username that is
\* registered, the response is 400 with detail "Username is already used.".
C3_Original ==
    ( /\ resp.op = "create_user"
      /\ resp.status # 201
      /\ \E u \in users : u.username = resp.arg.username )
        => (resp.status = 400 /\ resp.detail = "Username is already used.")

\* the state part and the step part of C3
C3_DuplicateInv ==
    /\ \A u1, u2 \in users : u1.username = u2.username => u1 = u2
    /\ (resp.op = "create_user" /\ resp.status = 400) =>
            /\ resp.detail \in {"Username is already used.", IntegrityErrorText}
            /\ Cardinality({u \in users : u.username = resp.arg.username}) = 1

C3_DuplicateStep ==
    /\ \A r \in Requests, u \in Usernames, p \in Passwords :
            (create_user(r, u, p) /\ \E row \in users : row.username = u) =>
                /\ resp'.status = 400
                /\ resp'.detail = "Username is already used."
                /\ store' = store
    /\ \A r \in Requests :
            (create_user_insert(r) /\ \E row \in users : row.username = req[r].username) =>
                /\ resp'.status = 400
                /\ resp'.detail = IntegrityErrorText
                /\ store' = store
    /\ \A r \in Requests :
            create_user_commit(r) => \A row \in users : row.username # req[r].username

\* C3 (amended): a create_user call for a username an earlier call registered
\* returns 400 and leaves the store unchanged, with detail "Username is already
\* used." when its existence check sees the row and with the integrity error's
\* text when the row was committed between its check and its INSERT; exactly
\* one user row with that username exists afterward.
C3_DuplicateRefused == []C3_DuplicateInv /\ [][C3_DuplicateStep]_vars

C3_Witness ==
    /\ resp.op = "create_user"
    /\ resp.status = 400
    /\ resp.detail = IntegrityErrorText

\* the state part and the step part of C4
C4_LiftInv ==
    /\ \A l \in lifts : \E e \in exercises : e.id = l.exercise
    /\ ( /\ resp.op = "create_lift"
         /\ resp.status # 401
         /\ \A e \in exercises : e.id # resp.arg.exercise_id )
            => (resp.status = 404 /\ resp.detail = "Exercise not found.")

C4_LiftStep ==
    (resp'.op = "create_lift" /\ resp'.status = 404) => lifts' = lifts

\* C4: create_lift with an exercise_id of no Exercise returns 404 "Exercise
\* not found." and leaves the Lift rows unchanged; every Lift row references
\* an Exercise of the store.
C4_LiftNeedsExercise == []C4_LiftInv /\ [][C4_LiftStep]_vars

C4_Witness ==
    /\ resp.op = "create_lift" /\ resp.status = 404
    /\ exercises # {}
    /\ lifts # {}

\* C5: the list list_lifts returns is ordered by date descending.
C5_DateDescending ==
    (resp.op = "list_lifts" /\ resp.status = 200) =>
        \A i \in 1..(Len(resp.body) - 1) : resp.body[i].date >= resp.body[i + 1].date

\* C6 as stated: after a successful change_password a login with the old
\* password is refused.
C6_Original ==
    (resp.op = "change_password" /\ resp.status = 200) =>
        authenticate(resp.arg.username, resp.arg.current_password) = NoUser

\* C6 (amended): after a successful change_password the session is still
\* authenticated as the same user, a login with the new password succeeds,
\* and a login with the old password is refused when the new password differs
\* from the old one.
C6_PasswordChanged ==
    (resp.op = "change_password" /\ resp.status = 200) =>
        /\ session_auth(resp.who) # NoUser
        /\ session_auth(resp.who).id = resp.arg.user
        /\ CredentialsMatch(resp.arg.username, resp.arg.new_password)
        /\ authenticate(resp.arg.username, resp.arg.new_password) # NoUser
        /\ resp.arg.new_password # resp.arg.current_password =>
                authenticate(resp.arg.username, resp.arg.current_password) = NoUser

C6_Witness ==
    /\ resp.op = "change_password" /\ resp.status = 200
    /\ resp.arg.new_password # resp.arg.current_password
    /\ \E t \in Sessions : t # resp.who /\ sess[t] # NoSession

\* the steps of C7
C7_FailedLoginStep ==
    /\ \A u \in Usernames, p \in Passwords :
            ( /\ SessionStep("login")
              /\ resp'.arg = [username |-> u, password |-> p]
              /\ ~CredentialsMatch(u, p) ) =>
                /\ resp'.status = 400
                /\ resp'.detail = "Invalid credentials."
                /\ sess' = sess
                /\ store' = store
    /\ \A s \in Sessions :
            ( /\ SessionStep("retrieve_current_user")
              /\ resp'.who = s
              /\ SessionState(s) = "Anonymous" ) =>
                resp'.status = 401

\* C7: a login whose username/password pair matches no stored user returns
\* 400 "Invalid credentials." and changes neither the session nor the store;
\* retrieve_current_user on an Anonymous session returns 401.
C7_FailedLogin == [][C7_FailedLoginStep]_vars

C7_Witness ==
    /\ resp.op = "login" /\ resp.status = 400
    /\ \E u \in users : u.username = resp.arg.username
    /\ SessionState(resp.who) = "Anonymous"

\* the steps of C8
C8_GateStep ==
    /\ \A s \in Sessions :
            (GatedStep /\ resp'.who = s /\ SessionState(s) = "Anonymous") =>
                /\ resp'.status = 401
                /\ store' = store
                /\ SessionState(s)' = "Anonymous"
                /\ sess[s] = NoSession => sess' = sess
                /\ \A t \in Sessions \ {s} : sess'[t] = sess[t]
    /\ (exercises' # exercises \/ lifts' # lifts) =>
            /\ GatedStep
            /\ resp'.op \in {"create_exercise", "create_lift"}
            /\ \E s \in Sessions : resp'.who = s /\ SessionState(s) = "Authenticated"
    /\ (\E u \in users, v \in users' : v.id = u.id /\ v.password # u.password) =>
            /\ SessionStep("change_password")
            /\ \E s \in Sessions : resp'.who = s /\ SessionState(s) = "Authenticated"

\* C8: a session-gated handler called on an Anonymous session returns 401 and
\* leaves the store unchanged and the session Anonymous; Exercise and Lift
\* rows are created and passwords changed only by requests of an
\* Authenticated session.
C8_AuthGate == [][C8_GateStep]_vars

C8_Witness ==
    /\ resp.op = "create_lift" /\ resp.status = 401
    /\ exercises # {}
    /\ \E t \in Sessions : SessionState(t) = "Authenticated"

\* C9 as stated: after a change_password that failed, a login with the
\* attempted new password is refused.
C9_Original ==
    (resp.op = "change_password" /\ resp.status = 400) =>
        authenticate(resp.arg.username, resp.arg.new_password) = NoUser

\* the steps of C9
C9_FailedChangeStep ==
    \A s \in Sessions, un \in Usernames, c \in Passwords, n \in Passwords :
        LET user == session_auth(s)
        IN  ( /\ SessionStep("change_password")
              /\ resp'.who = s
              /\ user # NoUser
              /\ user.username = un
              /\ resp'.arg.current_password = c
              /\ resp'.arg.new_password = n
              /\ (~StoredPasswordIs(user, c) \/ validate_password(n) # << >>) ) =>
                /\ resp'.status = 400
                /\ ~StoredPasswordIs(user, c) =>
                        resp'.detail = "Current password is incorrect."
                /\ store' = store
                /\ sess' = sess
                /\ SessionState(s)' = "Authenticated"
                /\ \A p \in Passwords :
                        StoredPasswordIs(user, p) => authenticate(un, p)' # NoUser
                /\ ~StoredPasswordIs(user, n) => authenticate(un, n)' = NoUser

\* C9 (amended): a change_password that fails (current_password wrong: 400
\* "Current password is incorrect."; new_password rejected by the validator:
\* 400) leaves the stored password and the session unchanged; a later login
\* with the old password succeeds, and one with the attempted new password
\* fails unless that password is the user's stored password.
C9_FailedChange == [][C9_FailedChangeStep]_vars

C9_Witness ==
    /\ resp.op = "change_password" /\ resp.status = 400
    /\ resp.detail = "This password is too short. This password is entirely numeric."
    /\ ~CredentialsMatch(resp.arg.username, resp.arg.new_password)

\* the steps of C10
C10_LogoutStep ==
    /\ \A s \in Sessions :
            (SessionStep("logout") /\ resp'.who = s) =>
                /\ resp'.status = 200 /\ resp'.detail = "Success."
                /\ sess'[s] = NoSession
                /\ SessionState(s)' = "Anonymous"
                /\ store' = store
                /\ \A t \in Sessions \ {s} : sess'[t] = sess[t]
                /\ sess[s] = NoSession => sess' = sess
    /\ \A s \in Sessions :
            ( /\ SessionState(s) = "Anonymous"
              /\ ~(SessionStep("login") /\ resp'.who = s /\ resp'.status = 200) ) =>
                /\ SessionState(s)' = "Anonymous"
                /\ (GatedStep /\ resp'.who = s) => resp'.status = 401

\* C10: logout returns success and leaves the session Anonymous from either
\* state, changes nothing on a session without data (so twice is once), never
\* changes the store or another session; an Anonymous session stays Anonymous,
\* and its gated requests get 401, until a successful login on it.
C10_Logout == [][C10_LogoutStep]_vars

C10_Witness ==
    /\ resp.op = "logout"
    /\ sess[resp.who] = NoSession
    /\ \E t \in Sessions : SessionState(t) = "Authenticated"

=============================================================================
